---------------------------- MODULE Spec2Model ----------------------------
(***************************************************************************)
(* Model of the load-posting bot: the seen-orders store (OrderManager),    *)
(* the discovery loop (scrape_entries), the entry queue and the delivery   *)
(* loop (process_entries, _send_with_retry) of BotApplication.             *)
(*                                                                         *)
(* The seen_orders table is kept as a sequence of rows in rowid order, so  *)
(* the position of a row is the order in which it was inserted.  A row's   *)
(* timestamp is the one-second granule of CURRENT_TIMESTAMP at its INSERT. *)
(* The program only ever compares timestamps with each other (ORDER BY     *)
(* timestamp DESC), so they are kept as ranks: after every step the        *)
(* timestamps in the table and the clock are renumbered 0, 1, 2, ... in    *)
(* their order (Rebase), which bounds the state without bounding time.     *)
(***************************************************************************)
EXTENDS Integers, Sequences, FiniteSets, TLC

\* ---------------------------------------------------------------- bounds
NumIds == 2        \* identifiers 1..NumIds
MaxBatch == 2      \* longest list handed to process_new_entries
MAX_LOADS == 1     \* settings.MAX_LOADS, the capacity N of the seen-set
NumCallers == 3    \* callers racing process_new_entries
NumAdmins == 2     \* entries of settings.ADMIN_IDS
MaxQueue == 2      \* entries held by the entry queue at most
JitterSteps == 2   \* random.uniform(0, 1) in steps of 1 / JitterSteps

max_retries == 5   \* _send_with_retry(entry, max_retries=5)

NoId == 0                      \* an entry whose order_id is missing or empty
Ids == 1..NumIds
RawIds == 0..NumIds
Callers == 1..NumCallers

VARIABLES
    now,          \* the clock, in CURRENT_TIMESTAMP granules (seconds)
    seen,         \* the committed seen_orders table, rows in rowid order
    lastOp,       \* the last store call: "none", "pne", "mark", "clear", "evict_error"
    lastBatch,    \* the argument of the last process_new_entries or mark_seen
    lastRet,      \* the list the last process_new_entries returned
    lastPre,      \* the identifiers in the table when the last store call began
    prevCall,     \* the store call before the last one, see Summary
    inserted,     \* the identifiers inserted since the last clear_all_orders
    entry_queue,      \* BotApplication.entry_queue
    posting_enabled,  \* BotApplication.posting_enabled, the posting gate
    notify_enabled,   \* settings.ERROR_NOTIFICATION_ENABLED
    s_pc,         \* scrape_entries: "run", "sleep", "backoff", "dead", "cancelled"
    d_pc,         \* process_entries: "get", "sending", "backoff", "cooldown", "dead", "cancelled"
    cur,          \* the entry process_entries dequeued last and what was done for it
    attempt,      \* the loop variable of _send_with_retry
    delay,        \* the backoff being slept, in units of 1 / JitterSteps seconds
    waits,        \* the backoffs slept for the current entry, in order
    task_done,    \* entry_queue.task_done() calls made for the entry dequeued last
    returned,     \* per identifier, how often process_new_entries returned it (2: twice or more)
    live,         \* the same, counted since its row was last removed from the table
    cleared,      \* whether clear_all_orders was ever called
    r_pc,         \* per racing caller: "call", "cleanup", "commit", "done"
    r_ret,        \* per racing caller: "none", "unseen", "seen", "error"
    lock,         \* the caller whose connection holds the write lock, 0 if none
    work,         \* the table as the open write transaction sees it
    error_notifier,   \* BotApplication.error_notifier and what it has done, see NotifierInit
    polling,      \* whether dispatcher.start_polling is running
    stop_cause,   \* how start_polling ended: "none" while it runs, "stopped", "fatal"
    fetch_error,  \* whether get_new_entries failed in the pass scrape_entries is sleeping after
    owed,         \* entries put on the queue minus entries got from it
    failed        \* identifiers of batches whose process_new_entries raised, not returned since

storeVars == <<now, seen>>
callVars == <<lastOp, lastBatch, lastRet, lastPre, prevCall, inserted>>
gateVars == <<posting_enabled, notify_enabled>>
deliveryVars == <<d_pc, cur, attempt, delay, waits, task_done>>
admitVars == <<returned, live, cleared>>
raceVars == <<r_pc, r_ret, lock, work>>
watchVars == <<error_notifier, polling, stop_cause, fetch_error, owed, failed>>
pipeVars == <<entry_queue, posting_enabled, notify_enabled, s_pc, d_pc, cur, attempt,
              delay, waits, task_done, returned, live, cleared>>
vars == <<now, seen, lastOp, lastBatch, lastRet, lastPre, prevCall, inserted,
          entry_queue, posting_enabled, notify_enabled, s_pc, d_pc, cur, attempt,
          delay, waits, task_done, returned, live, cleared, r_pc, r_ret, lock, work,
          error_notifier, polling, stop_cause, fetch_error, owed, failed>>

\* ---------------------------------------------------------------- helpers
SeqSet(s) == {s[k] : k \in 1..Len(s)}

SeenIds(table) == {table[k].order_id : k \in 1..Len(table)}

\* The rows of table at the positions in keep, in table order.
RECURSIVE KeepRows(_, _, _)
KeepRows(table, keep, k) ==
    IF k > Len(table) THEN <<>>
    ELSE IF k \in keep THEN <<table[k]>> \o KeepRows(table, keep, k + 1)
    ELSE KeepRows(table, keep, k + 1)

\* The i-th entry of a fetched list: a dict with its order_id; idx stands for
\* the identity of the dict object (its place in the list).
EntryAt(entries, k) == [order_id |-> entries[k], idx |-> k]

\* All lists of at most MaxBatch raw identifiers.
BatchesOver(S) == UNION {[1..n -> S] : n \in 0..MaxBatch}

\* The clock readings of n INSERTs that store a row, run in sequence from time
\* t: the first reads t, and from one to the next the clock stays in its second
\* or moves on (by how much does not matter to the order of timestamps).
Stamps(t, n) ==
    {s \in [1..n -> t..(t + n)] :
        /\ s[1] = t
        /\ \A a \in 1..(n - 1) : s[a + 1] - s[a] \in {0, 1}}

\* The clock at the j-th INSERT that stores a row; the clock is not followed
\* past the last reading drawn.
ReadClock(stamps, j) == stamps[IF j <= Len(stamps) THEN j ELSE Len(stamps)]

\* The rank of time t among the timestamps of table.
Rank(table, t) == Cardinality({table[k].timestamp : k \in 1..Len(table)} \cap 0..(t - 1))

\* table and clock t with every time replaced by its rank.
Rebase(table, t) ==
    [table |-> [k \in 1..Len(table) |->
                  [order_id |-> table[k].order_id,
                   timestamp |-> Rank(table, table[k].timestamp)]],
     now |-> Rank(table, t)]

\* ---------------------------------------------------------------- OrderManager
\* Mutant: the statement written as INSERT OR REPLACE, which never conflicts.
TryInsert_Replace(table, order_id, ts) ==
    [ok |-> TRUE,
     table |-> Append(SelectSeq(table, LAMBDA row : row.order_id # order_id),
                      [order_id |-> order_id, timestamp |-> ts])]

\* INSERT INTO seen_orders (order_id) VALUES (?): IntegrityError (ok = FALSE)
\* when the primary key exists, else a new row with the current timestamp.
TryInsert(table, order_id, ts) ==
    IF order_id \in SeenIds(table)
    THEN [ok |-> FALSE, table |-> table]
    ELSE [ok |-> TRUE,
          table |-> Append(table, [order_id |-> order_id, timestamp |-> ts])]

\* Mutant: the list is walked in input order, without reversed().
RECURSIVE InsertLoop_Forward(_, _, _, _, _)
InsertLoop_Forward(entries, k, table, unseen_entries, stamps) ==
    IF k = 0 THEN [table |-> table, unseen_entries |-> unseen_entries]
    ELSE LET p == Len(entries) - k + 1
         IN  IF entries[p] = NoId
             THEN InsertLoop_Forward(entries, k - 1, table, unseen_entries, stamps)
             ELSE LET r == TryInsert(table, entries[p], ReadClock(stamps, Len(unseen_entries) + 1))
                  IN  IF r.ok
                      THEN InsertLoop_Forward(entries, k - 1, r.table,
                                              Append(unseen_entries, EntryAt(entries, p)),
                                              stamps)
                      ELSE InsertLoop_Forward(entries, k - 1, table, unseen_entries, stamps)

\* Mutant: the test "if not order_id: continue" is missing.
RECURSIVE InsertLoop_NoSkip(_, _, _, _, _)
InsertLoop_NoSkip(entries, k, table, unseen_entries, stamps) ==
    IF k = 0 THEN [table |-> table, unseen_entries |-> unseen_entries]
    ELSE LET r == TryInsert(table, entries[k], ReadClock(stamps, Len(unseen_entries) + 1))
         IN  IF r.ok
             THEN InsertLoop_NoSkip(entries, k - 1, r.table,
                                    Append(unseen_entries, EntryAt(entries, k)), stamps)
             ELSE InsertLoop_NoSkip(entries, k - 1, table, unseen_entries, stamps)

\* for entry in reversed(entries): position k runs from Len(entries) down to 1;
\* stamps[j] is the clock at the j-th INSERT that stores a row.
RECURSIVE InsertLoop(_, _, _, _, _)
InsertLoop(entries, k, table, unseen_entries, stamps) ==
    IF k = 0 THEN [table |-> table, unseen_entries |-> unseen_entries]
    ELSE IF entries[k] = NoId
         THEN InsertLoop(entries, k - 1, table, unseen_entries, stamps)
         ELSE LET r == TryInsert(table, entries[k], ReadClock(stamps, Len(unseen_entries) + 1))
              IN  IF r.ok
                  THEN InsertLoop(entries, k - 1, r.table,
                                  Append(unseen_entries, EntryAt(entries, k)), stamps)
                  ELSE InsertLoop(entries, k - 1, table, unseen_entries, stamps)

\* OFFSET ? with a bound value below zero counts as zero.
Offset(n) == IF n < 0 THEN 0 ELSE n

\* Mutant: the cleanup keeps one row too many (OFFSET max_orders + 1).
Cleanup_OffByOne(table, max_orders) ==
    IF Len(table) <= Offset(max_orders) + 1 THEN {table}
    ELSE {SelectSeq(table, LAMBDA row : row.order_id \in keep) :
            keep \in {K \in SUBSET SeenIds(table) :
                        /\ Cardinality(K) = Offset(max_orders) + 1
                        /\ \A k \in 1..Len(table) : \A e \in 1..Len(table) :
                              (table[k].order_id \in K /\ table[e].order_id \notin K)
                                 => table[k].timestamp >= table[e].timestamp}}

\* DELETE ... WHERE order_id IN (SELECT order_id ... ORDER BY timestamp DESC
\* LIMIT -1 OFFSET max_orders): the rows after the first max_orders in
\* descending timestamp order go.  SQL leaves the order of rows with equal
\* timestamps open, so every choice of kept rows that agrees with the
\* timestamps is a possible outcome.
Cleanup(table, max_orders) ==
    IF Len(table) <= Offset(max_orders) THEN {table}
    ELSE {KeepRows(table, keep, 1) :
            keep \in {K \in SUBSET (1..Len(table)) :
                        /\ Cardinality(K) = Offset(max_orders)
                        /\ \A k \in K : \A e \in (1..Len(table)) \ K :
                              table[k].timestamp >= table[e].timestamp}}

\* process_new_entries(entries) on table: every outcome it may have, the list
\* returned with the table committed (the cleanup runs once, and only when
\* something was admitted).
process_new_entries(table, entries, stamps) ==
    LET r == InsertLoop(entries, Len(entries), table, <<>>, stamps)
    IN  {[unseen_entries |-> r.unseen_entries, table |-> t] :
            t \in IF r.unseen_entries # <<>>
                  THEN Cleanup(r.table, MAX_LOADS)
                  ELSE {r.table}}

\* The number of clock readings drawn for a call: one for each row that
\* entries can add to table, and at least one.
NewRows(table, entries) ==
    LET n == Cardinality((SeqSet(entries) \ {NoId}) \ SeenIds(table))
    IN  IF n = 0 THEN 1 ELSE n

\* The clock at the last INSERT of the call.
ClockAfter(stamps) == stamps[Len(stamps)]

\* INSERT OR REPLACE: an existing row of the identifier is deleted and a new
\* row is inserted.
InsertOrReplace(table, order_id, ts) ==
    LET rest == KeepRows(table, {k \in 1..Len(table) : table[k].order_id # order_id}, 1)
    IN  Append(rest, [order_id |-> order_id, timestamp |-> ts])

\* mark_seen(order_id): the tables it may commit.
mark_seen(order_id) == Cleanup(InsertOrReplace(seen, order_id, now), MAX_LOADS)

\* Mutant: a connection left by an exception keeps what it wrote.
Rollback_KeepPartial(committed, working) == working

\* "with sqlite3.connect(...) as conn" left by an exception rolls the
\* transaction back.
Rollback(committed, working) == committed

\* Mutant: the DELETE spares the newest row.
clear_all_orders_KeepNewest == IF seen = <<>> THEN <<>> ELSE <<seen[Len(seen)]>>

\* clear_all_orders(): DELETE FROM seen_orders.
clear_all_orders == <<>>

\* ---------------------------------------------------------------- the store alone
NoEntry == [order_id |-> NoId, idx |-> 0]

PipeInit ==
    /\ entry_queue = <<>>
    /\ posting_enabled = TRUE
    /\ notify_enabled \in BOOLEAN
    /\ s_pc = "run"
    /\ d_pc = "get"
    /\ cur = [entry |-> NoEntry, gate |-> TRUE, formatted |-> FALSE, sends |-> 0,
              notified |-> 0, outcome |-> "NONE"]
    /\ attempt = 0
    /\ delay = 0
    /\ waits = <<>>
    /\ task_done = 0
    /\ returned = [i \in Ids |-> 0]
    /\ live = [i \in Ids |-> 0]
    /\ cleared = FALSE

TableInit ==
    /\ now = 0
    /\ seen = <<>>
    /\ lastOp = "none"
    /\ lastBatch = <<>>
    /\ lastRet = <<>>
    /\ lastPre = {}
    /\ prevCall = [op |-> "other", ids |-> {}]
    /\ inserted = {}

\* settings.ADMIN_IDS, the recipients of an alert.
Recipients == 1..NumAdmins

\* ErrorNotifier.__init__: last_notification_time is datetime.min, written 0;
\* calls and alerts count the notify calls made and the alert rounds sent
\* (2: two or more); attempted holds the recipients the last call awaited
\* bot.send_message for; outcome tells how the last call ended: "none"
\* before the first call, "raised", "disabled", "throttled", "sent".
NotifierInit ==
    [last_notification_time |-> 0, calls |-> 0, alerts |-> 0, attempted |-> {},
     outcome |-> "none"]

WatchInit ==
    /\ error_notifier = NotifierInit
    /\ polling = TRUE
    /\ stop_cause = "none"
    /\ fetch_error = FALSE
    /\ owed = 0
    /\ failed = {}

RaceInit ==
    /\ r_pc = [c \in Callers |-> "call"]
    /\ r_ret = [c \in Callers |-> "none"]
    /\ lock = 0
    /\ work = <<>>

\* The store alone: the pipeline stays as constructed, with the default
\* ERROR_NOTIFICATION_ENABLED.
StoreInit == TableInit /\ PipeInit /\ RaceInit /\ WatchInit /\ notify_enabled

\* A second passes.
Tick ==
    /\ now' = Rebase(seen, now + 1).now
    /\ UNCHANGED <<seen, callVars, pipeVars, raceVars, watchVars>>

RetIds(ret) == {ret[k].order_id : k \in 1..Len(ret)}

\* What is kept of a store call once the next one is made:
\*   "admit1", {i}  process_new_entries([i]) returned its entry and left i in the table;
\*   "clear", S     clear_all_orders, called on a table holding the identifiers S;
\*   "other", {}    any other call.
Summary ==
    IF /\ lastOp = "pne"
       /\ Len(lastBatch) = 1
       /\ Len(lastRet) = 1
       /\ lastBatch[1] \in SeenIds(seen)
    THEN [op |-> "admit1", ids |-> {lastBatch[1]}]
    ELSE IF lastOp = "clear"
         THEN [op |-> "clear", ids |-> lastPre]
         ELSE [op |-> "other", ids |-> {}]

CallProcessNewEntries ==
    \E entries \in BatchesOver(RawIds) :
      \E stamps \in Stamps(now, NewRows(seen, entries)) :
        \E out \in process_new_entries(seen, entries, stamps) :
          LET rb == Rebase(out.table, ClockAfter(stamps))
          IN  /\ seen' = rb.table
              /\ now' = rb.now
              /\ lastOp' = "pne"
              /\ lastBatch' = entries
              /\ lastRet' = out.unseen_entries
              /\ lastPre' = SeenIds(seen)
              /\ prevCall' = Summary
              /\ inserted' = inserted \cup RetIds(out.unseen_entries)
              /\ UNCHANGED <<pipeVars, raceVars, watchVars>>

CallMarkSeen ==
    \E order_id \in Ids :
      \E table2 \in mark_seen(order_id) :
        /\ LET rb == Rebase(table2, now)
           IN  seen' = rb.table /\ now' = rb.now
        /\ lastOp' = "mark"
        /\ lastBatch' = <<order_id>>
        /\ lastPre' = SeenIds(seen)
        /\ prevCall' = Summary
        /\ inserted' = inserted \cup {order_id}
        /\ UNCHANGED <<lastRet, pipeVars, raceVars, watchVars>>

\* process_new_entries(entries) whose cleanup DELETE raises after at least one
\* INSERT went through (sqlite3.OperationalError: disk full, I/O error): the
\* statement is inside the "with" block and nothing catches the exception,
\* so the transaction is rolled back and the call raises instead of
\* returning unseen_entries.
CallEvictionError ==
    \E entries \in BatchesOver(RawIds) :
      \E stamps \in Stamps(now, NewRows(seen, entries)) :
        LET r == InsertLoop(entries, Len(entries), seen, <<>>, stamps)
            rb == Rebase(Rollback(seen, r.table), ClockAfter(stamps))
        IN  /\ r.unseen_entries # <<>>
            /\ seen' = rb.table
            /\ now' = rb.now
            /\ lastOp' = "evict_error"
            /\ lastBatch' = entries
            /\ lastRet' = <<>>
            /\ lastPre' = SeenIds(seen)
            /\ prevCall' = Summary
            /\ UNCHANGED <<inserted, pipeVars, raceVars, watchVars>>

CallClearAllOrders ==
    /\ seen' = clear_all_orders
    /\ now' = Rebase(clear_all_orders, now).now
    /\ lastOp' = "clear"
    /\ lastPre' = SeenIds(seen)
    /\ prevCall' = Summary
    /\ inserted' = {}
    /\ UNCHANGED <<lastBatch, lastRet, pipeVars, raceVars, watchVars>>

StoreNext ==
    \/ Tick
    \/ CallProcessNewEntries
    \/ CallMarkSeen
    \/ CallClearAllOrders
    \/ CallEvictionError

SpecStore == StoreInit /\ [][StoreNext]_vars

\* ---------------------------------------------------------------- BotApplication
\* How often identifier i occurs in the list ret.
Occurrences(ret, i) == Cardinality({k \in 1..Len(ret) : ret[k].order_id = i})

Capped(n) == IF n > 2 THEN 2 ELSE n

\* Mutant: notify sends an alert round on every call.
notify_NoThrottle(n) ==
    [raised |-> FALSE,
     notifier |-> [n EXCEPT !.calls = Capped(@ + 1), !.alerts = Capped(@ + 1),
                            !.attempted = Recipients, !.outcome = "sent"]]

\* ErrorNotifier.notify.  Its first statement reads
\* get_settings.ERROR_NOTIFICATION_ENABLED, and get_settings is the function
\* of config.py, not the Settings object it returns: the read raises
\* AttributeError on every call, before the lock, the throttle check and the
\* sends are reached: no recipient is attempted and the caller gets the
\* exception.
notify(n) ==
    [raised |-> TRUE,
     notifier |-> [n EXCEPT !.calls = Capped(@ + 1), !.attempted = {},
                            !.outcome = "raised"]]

\* Mutant: the put loop runs although process_new_entries raised.
ToEnqueue_Always(raised, unseen_entries) == unseen_entries

\* "for entry in unseen_entries: await self.entry_queue.put(entry)" is reached
\* only when process_new_entries returned.
ToEnqueue(raised, unseen_entries) == IF raised THEN <<>> ELSE unseen_entries

\* Mutant: the last put of a pass is lost.
PutAll_DropLast(queue, entries) ==
    queue \o SubSeq(entries, 1, Len(entries) - 1)

\* entry_queue.put for each entry in turn; the queue has no maxsize.
PutAll(queue, entries) == queue \o entries

\* scrape_entries, one pass of the loop body up to its sleep: the scraper's
\* list (every entry has an order_id) goes through process_new_entries and
\* the unseen entries are put on the queue in the order returned.  None of
\* these calls suspends (the queue is unbounded), so the pass is one step.
ScrapeCycle ==
    /\ s_pc = "run"
    /\ \E new_entries \in BatchesOver(Ids) :
         \E stamps \in Stamps(now, NewRows(seen, new_entries)) :
           \E out \in process_new_entries(seen, new_entries, stamps) :
             LET rb == Rebase(out.table, ClockAfter(stamps))
                 unseen_entries == out.unseen_entries
             IN  /\ Len(entry_queue) + Len(unseen_entries) <= MaxQueue
                 /\ seen' = rb.table
                 /\ now' = rb.now
                 /\ entry_queue' = PutAll(entry_queue, ToEnqueue(FALSE, unseen_entries))
                 /\ owed' = owed + Len(ToEnqueue(FALSE, unseen_entries))
                 /\ failed' = failed \ RetIds(unseen_entries)
                 /\ returned' = [i \in Ids |->
                                   Capped(returned[i] + Occurrences(unseen_entries, i))]
                 /\ live' = [i \in Ids |->
                               IF Occurrences(unseen_entries, i) > 1 THEN 2
                               ELSE IF i \in SeenIds(out.table)
                                    THEN Capped(live[i] + Occurrences(unseen_entries, i))
                                    ELSE 0]
    /\ s_pc' = "sleep"
    /\ fetch_error' = FALSE
    /\ UNCHANGED <<callVars, raceVars, error_notifier, polling, stop_cause, gateVars, deliveryVars, cleared>>

\* A pass in which get_new_entries fails (request error, status other than
\* 200, a body that is no list): it logs and returns [], so the pass goes on
\* as one that found nothing and sleeps the normal interval.
ScrapeFetchError ==
    /\ s_pc = "run"
    /\ \E out \in process_new_entries(seen, <<>>, <<now>>) :
         /\ seen' = out.table
         /\ entry_queue' = PutAll(entry_queue, ToEnqueue(FALSE, out.unseen_entries))
         /\ owed' = owed + Len(ToEnqueue(FALSE, out.unseen_entries))
    /\ s_pc' = "sleep"
    /\ fetch_error' = TRUE
    /\ UNCHANGED <<now, callVars, raceVars, error_notifier, polling, stop_cause, failed, gateVars,
                   deliveryVars, admitVars>>

\* A pass in which process_new_entries raises something other than
\* IntegrityError (sqlite3.OperationalError and the like): at the INSERT after
\* the first m entries processed, or, with all of them processed, at the
\* DELETE or at the commit.  The transaction is rolled back, the put loop is
\* skipped and the handler of scrape_entries runs: it calls notify if
\* notifications are enabled, and sleeps 60 seconds if that returns.
ScrapeStorageError ==
    /\ s_pc = "run"
    /\ \E new_entries \in BatchesOver(Ids) :
         \E stamps \in Stamps(now, NewRows(seen, new_entries)) :
           \E m \in 0..Len(new_entries) :
             LET r == InsertLoop(SubSeq(new_entries, Len(new_entries) - m + 1, Len(new_entries)),
                                 m, seen, <<>>, stamps)
                 at_end == IF m = Len(new_entries) /\ r.unseen_entries # <<>>
                           THEN Cleanup(r.table, MAX_LOADS) ELSE {}
             IN  \E working \in {r.table} \cup at_end :
                   /\ seen' = Rollback(seen, working)
                   /\ entry_queue' = PutAll(entry_queue, ToEnqueue(TRUE, r.unseen_entries))
                   /\ owed' = owed + Len(ToEnqueue(TRUE, r.unseen_entries))
                   /\ failed' = failed \cup (SeqSet(new_entries) \ SeenIds(seen))
    /\ IF notify_enabled
       THEN /\ error_notifier' = notify(error_notifier).notifier
            /\ s_pc' = IF notify(error_notifier).raised THEN "dead" ELSE "backoff"
       ELSE /\ error_notifier' = error_notifier
            /\ s_pc' = "backoff"
    /\ fetch_error' = FALSE
    /\ UNCHANGED <<now, callVars, raceVars, polling, stop_cause, gateVars, deliveryVars, admitVars>>

\* await asyncio.sleep(30), or asyncio.sleep(60) in the handler, returns: at
\* least one second has passed.
ScrapeWake ==
    /\ s_pc \in {"sleep", "backoff"}
    /\ s_pc' = "run"
    /\ fetch_error' = FALSE
    /\ now' = Rebase(seen, now + 1).now
    /\ UNCHANGED <<seen, callVars, raceVars, error_notifier, polling, stop_cause, owed, failed,
                   entry_queue, gateVars, deliveryVars, admitVars>>

Pow2(n) == IF n = 0 THEN 1 ELSE IF n = 1 THEN 2 ELSE IF n = 2 THEN 4
           ELSE IF n = 3 THEN 8 ELSE 16

\* Mutant: the backoff does not grow with the attempt.
BackoffDelay_Flat(n, jitter) == 2 * JitterSteps + jitter

\* delay = 2 * (2 ** attempt) + random.uniform(0, 1), in units of
\* 1 / JitterSteps seconds; jitter is the random part, 0 .. JitterSteps - 1.
BackoffDelay(n, jitter) == 2 * Pow2(n) * JitterSteps + jitter

\* What process_entries holds of a dequeued entry.
Handling(entry, gate, formatted, notified, outcome) ==
    [entry |-> entry, gate |-> gate, formatted |-> formatted, sends |-> 0,
     notified |-> notified, outcome |-> outcome]

\* Mutant: get returns the entry put last.
QueueGet_Last(queue) ==
    [entry |-> queue[Len(queue)], rest |-> SubSeq(queue, 1, Len(queue) - 1)]

\* entry_queue.get() on a queue that is not empty.
QueueGet(queue) == [entry |-> Head(queue), rest |-> Tail(queue)]

\* entry = await self.entry_queue.get() with posting disabled: the entry is
\* logged as skipped and marked done.
DequeueSkip ==
    /\ ~posting_enabled
    /\ cur' = Handling(QueueGet(entry_queue).entry, FALSE, FALSE, 0, "SKIPPED")
    /\ d_pc' = "get"
    /\ error_notifier' = error_notifier
    /\ attempt' = 0
    /\ delay' = 0
    /\ waits' = <<>>
    /\ task_done' = 1

\* Mutant: the gate is not looked at, a dequeued entry can always be sent.
GateOpen_Ignored == TRUE

\* The branch "else" of "if not self.posting_enabled".
GateOpen == posting_enabled

\* posting enabled, the message is formatted, the first send_message is awaited.
DequeueSend ==
    /\ GateOpen
    /\ cur' = Handling(QueueGet(entry_queue).entry, posting_enabled, TRUE, 0, "PENDING")
    /\ d_pc' = "sending"
    /\ error_notifier' = error_notifier
    /\ attempt' = 0
    /\ delay' = 0
    /\ waits' = <<>>
    /\ task_done' = 0

\* Mutant: process_entries goes back to the queue without its cooldown.
AfterSend_NoCooldown == "get"

\* _send_with_retry returned, True or False: "await asyncio.sleep(3)".
AfterSend == "cooldown"

\* posting enabled and formatting raises.  With notifications disabled
\* _send_with_retry returns False and the loop sleeps its cooldown.  With
\* notifications enabled _send_with_retry calls notify; if that returns, the
\* same; if it raises, the handler of process_entries calls notify again, and
\* if that raises too the task ends, else the entry is marked done.
DequeueFormatError ==
    /\ GateOpen
    /\ LET entry == QueueGet(entry_queue).entry
           first == notify(error_notifier)
           second == notify(first.notifier)
       IN  IF ~notify_enabled
           THEN /\ cur' = Handling(entry, posting_enabled, FALSE, 0, "FAILED_TERMINAL")
                /\ d_pc' = AfterSend
                /\ error_notifier' = error_notifier
                /\ task_done' = 0
           ELSE IF ~first.raised
           THEN /\ cur' = Handling(entry, posting_enabled, FALSE, 1, "FAILED_TERMINAL")
                /\ d_pc' = AfterSend
                /\ error_notifier' = first.notifier
                /\ task_done' = 0
           ELSE /\ cur' = Handling(entry, posting_enabled, FALSE, 2, "FAILED_TERMINAL")
                /\ d_pc' = IF second.raised THEN "dead" ELSE "get"
                /\ error_notifier' = second.notifier
                /\ task_done' = IF second.raised THEN 0 ELSE 1
    /\ attempt' = 0
    /\ delay' = 0
    /\ waits' = <<>>

\* process_entries takes the next entry off the queue.
Dequeue ==
    /\ d_pc = "get"
    /\ entry_queue # <<>>
    /\ entry_queue' = QueueGet(entry_queue).rest
    /\ owed' = owed - 1
    /\ \/ DequeueSkip
       \/ DequeueSend
       \/ DequeueFormatError
    /\ UNCHANGED <<storeVars, callVars, raceVars, polling, stop_cause, fetch_error, failed, gateVars,
                   s_pc, admitVars>>

\* bot.send_message returns: _send_with_retry returns True.
SendOk ==
    /\ d_pc = "sending"
    /\ cur' = [cur EXCEPT !.sends = @ + 1, !.outcome = "SENT"]
    /\ d_pc' = AfterSend
    /\ UNCHANGED <<storeVars, callVars, raceVars, watchVars, entry_queue, gateVars, s_pc, attempt, delay,
                   waits, task_done, admitVars>>

\* Mutant: giving up also goes to the notifier.
GiveUp_Notified(handling) ==
    [handling EXCEPT !.sends = @ + 1, !.notified = @ + 1, !.outcome = "FAILED_TERMINAL"]

\* The last attempt failed: the failure is logged and _send_with_retry
\* returns False.
GiveUp(handling) == [handling EXCEPT !.sends = @ + 1, !.outcome = "FAILED_TERMINAL"]

\* bot.send_message raises: sleep the backoff if attempts are left, else give
\* up.  With log set the backoff is also appended to waits.
SendFailure(log) ==
    /\ d_pc = "sending"
    /\ IF attempt < max_retries - 1
       THEN \E jitter \in 0..(JitterSteps - 1) :
              /\ delay' = BackoffDelay(attempt, jitter)
              /\ waits' = IF log THEN Append(waits, BackoffDelay(attempt, jitter)) ELSE waits
              /\ cur' = [cur EXCEPT !.sends = @ + 1]
              /\ d_pc' = "backoff"
       ELSE /\ cur' = GiveUp(cur)
            /\ d_pc' = AfterSend
            /\ UNCHANGED <<delay, waits>>
    /\ UNCHANGED <<storeVars, callVars, raceVars, watchVars, entry_queue, gateVars, s_pc, attempt,
                   task_done, admitVars>>

SendFail == SendFailure(FALSE)

SendFailLogged == SendFailure(TRUE)

\* await asyncio.sleep(delay) returns: the next attempt.
BackoffWake ==
    /\ d_pc = "backoff"
    /\ attempt' = attempt + 1
    /\ delay' = 0
    /\ d_pc' = "sending"
    /\ UNCHANGED <<storeVars, callVars, raceVars, watchVars, entry_queue, gateVars, s_pc, cur, waits, task_done, admitVars>>

\* await asyncio.sleep(3) returns; task_done().
CooldownWake ==
    /\ d_pc = "cooldown"
    /\ d_pc' = "get"
    /\ task_done' = task_done + 1
    /\ UNCHANGED <<storeVars, callVars, raceVars, watchVars, entry_queue, gateVars, s_pc, cur, attempt, delay,
                   waits, admitVars>>

\* /stoppost from an admin.
cmd_stoppost ==
    /\ polling
    /\ posting_enabled' = FALSE
    /\ UNCHANGED <<storeVars, callVars, raceVars, watchVars, entry_queue, notify_enabled, s_pc, deliveryVars,
                   admitVars>>

\* /startpost from an admin.
cmd_startpost ==
    /\ polling
    /\ posting_enabled' = TRUE
    /\ UNCHANGED <<storeVars, callVars, raceVars, watchVars, entry_queue, notify_enabled, s_pc, deliveryVars,
                   admitVars>>

\* /clearorders from an admin.
cmd_clearorders ==
    /\ polling
    /\ seen' = clear_all_orders
    /\ now' = Rebase(clear_all_orders, now).now
    /\ cleared' = TRUE
    /\ live' = [i \in Ids |-> 0]
    /\ UNCHANGED <<callVars, raceVars, watchVars, entry_queue, gateVars, s_pc, deliveryVars, returned>>

\* Mutant: cancel() has no effect on a task.
Cancelled_Ignored(pc) == pc

\* task.cancel(): a task that is waiting ends at its await with
\* CancelledError; a task that has ended stays as it is.
Cancelled(pc) == IF pc = "dead" THEN "dead" ELSE "cancelled"

\* Mutant: the handler of start() re-raises without a notify call.
ReportFatal_Skipped(enabled, n) == n

\* "except Exception as e" of start(): the notify call it makes when
\* settings.ERROR_NOTIFICATION_ENABLED is set.
ReportFatal(enabled, n) == IF enabled THEN notify(n).notifier ELSE n

\* The "finally" of start(): both tasks are cancelled, one after the other
\* with no await between, gathered with return_exceptions, and then the bot
\* session is closed.
StopTasks(cause) ==
    /\ polling
    /\ polling' = FALSE
    /\ stop_cause' = cause
    /\ s_pc' = Cancelled(s_pc)
    /\ d_pc' = Cancelled(d_pc)
    /\ UNCHANGED <<storeVars, callVars, raceVars, fetch_error, owed, failed,
                   entry_queue, gateVars, cur, attempt, delay, waits, task_done, admitVars>>

\* start_polling returns, or raises KeyboardInterrupt or SystemExit (logged):
\* the "finally" runs.
Shutdown ==
    /\ StopTasks("stopped")
    /\ error_notifier' = error_notifier

\* start_polling raises another exception: it is logged and, when enabled,
\* given to notify; whether notify returns (then the exception is re-raised)
\* or raises itself, the "finally" runs.
ShutdownFatal ==
    /\ StopTasks("fatal")
    /\ error_notifier' = ReportFatal(notify_enabled, error_notifier)

Init == TableInit /\ PipeInit /\ RaceInit /\ WatchInit

Next ==
    \/ ScrapeCycle
    \/ ScrapeFetchError
    \/ ScrapeStorageError
    \/ ScrapeWake
    \/ Dequeue
    \/ SendOk
    \/ SendFail
    \/ BackoffWake
    \/ CooldownWake
    \/ cmd_stoppost
    \/ cmd_startpost
    \/ cmd_clearorders
    \/ Shutdown
    \/ ShutdownFatal

Spec == Init /\ [][Next]_vars

\* process_entries alone, on a queue that already holds entries.
QueueInit == {q \in BatchesOver(Ids) : q # <<>>}

SpecSendInit ==
    \E q \in QueueInit :
        /\ TableInit
        /\ entry_queue = [k \in 1..Len(q) |-> EntryAt(q, k)]
        /\ posting_enabled = TRUE
        /\ notify_enabled \in BOOLEAN
        /\ s_pc = "sleep"
        /\ d_pc = "get"
        /\ cur = Handling(NoEntry, TRUE, FALSE, 0, "NONE")
        /\ attempt = 0
        /\ delay = 0
        /\ waits = <<>>
        /\ task_done = 0
        /\ returned = [i \in Ids |-> 0]
        /\ live = [i \in Ids |-> 0]
        /\ cleared = FALSE
        /\ RaceInit
        /\ error_notifier = NotifierInit
        /\ polling = TRUE
        /\ stop_cause = "none"
        /\ fetch_error = FALSE
        /\ owed = Len(q)
        /\ failed = {}

SendNext ==
    \/ Dequeue
    \/ SendOk
    \/ SendFailLogged
    \/ BackoffWake
    \/ CooldownWake
    \/ cmd_stoppost
    \/ cmd_startpost

SpecSend == SpecSendInit /\ [][SendNext]_vars

\* The same under the event loop's scheduling: a task that can run is run, an
\* awaited send returns or raises, a sleep ends.
SendFairness ==
    /\ WF_vars(Dequeue)
    /\ WF_vars(SendOk \/ SendFailLogged)
    /\ WF_vars(BackoffWake)
    /\ WF_vars(CooldownWake)

SpecSendFair == SpecSendInit /\ [][SendNext]_vars /\ SendFairness

\* ---------------------------------------------------------------- scrape_entries alone
\* The discovery task, never cancelled, with nothing taking entries off the
\* queue.
ScrapeNext ==
    \/ ScrapeCycle
    \/ ScrapeFetchError
    \/ ScrapeStorageError
    \/ ScrapeWake

\* The event loop resumes a task that can run, and a sleep ends.
ScrapeFairness ==
    /\ WF_vars(ScrapeCycle \/ ScrapeFetchError \/ ScrapeStorageError)
    /\ WF_vars(ScrapeWake)

SpecScrapeFair == Init /\ [][ScrapeNext]_vars /\ ScrapeFairness

\* ---------------------------------------------------------------- racing callers
\* The identifier the callers race with, and the others.
RaceId == NumIds
OtherIds == Ids \ {RaceId}

\* An earlier call of process_new_entries, before any racer starts, on
\* identifiers other than the raced one.
RaceSetup ==
    /\ \A c \in Callers : r_pc[c] = "call"
    /\ lock = 0
    /\ \E entries \in BatchesOver(OtherIds) :
         \E stamps \in Stamps(now, NewRows(seen, entries)) :
           \E out \in process_new_entries(seen, entries, stamps) :
             LET rb == Rebase(out.table, ClockAfter(stamps))
             IN  /\ seen' = rb.table
                 /\ now' = rb.now
    /\ UNCHANGED <<callVars, pipeVars, raceVars, watchVars>>

\* A second passes.  The clock is read by the INSERT only, the first
\* statement of a transaction, so time passing inside a transaction is time
\* passing after it.
RaceTick ==
    /\ lock = 0
    /\ now' = Rebase(seen, now + 1).now
    /\ UNCHANGED <<seen, callVars, pipeVars, raceVars, watchVars>>

\* Caller c runs the loop of process_new_entries([RaceId]) on its own
\* connection: the INSERT takes the write lock and either stores the row or
\* raises IntegrityError.
RaceInsert(c) ==
    /\ r_pc[c] = "call"
    /\ lock = 0
    /\ LET r == InsertLoop(<<RaceId>>, 1, seen, <<>>, <<now>>)
       IN  /\ work' = r.table
           /\ r_ret' = [r_ret EXCEPT ![c] = IF r.unseen_entries # <<>> THEN "unseen" ELSE "seen"]
           /\ r_pc' = [r_pc EXCEPT ![c] = IF r.unseen_entries # <<>> THEN "cleanup" ELSE "commit"]
    /\ lock' = c
    /\ UNCHANGED <<storeVars, callVars, pipeVars, watchVars>>

\* Caller c finds the database locked by another connection until the busy
\* timeout ends: sqlite3.OperationalError leaves process_new_entries.
RaceBusy(c) ==
    /\ r_pc[c] = "call"
    /\ lock # 0
    /\ r_ret' = [r_ret EXCEPT ![c] = "error"]
    /\ r_pc' = [r_pc EXCEPT ![c] = "done"]
    /\ UNCHANGED <<storeVars, callVars, pipeVars, watchVars, lock, work>>

\* The DELETE ... OFFSET max_orders of caller c.
RaceCleanup(c) ==
    /\ r_pc[c] = "cleanup"
    /\ work' \in Cleanup(work, MAX_LOADS)
    /\ r_pc' = [r_pc EXCEPT ![c] = "commit"]
    /\ UNCHANGED <<storeVars, callVars, pipeVars, watchVars, r_ret, lock>>

\* conn.commit() of caller c; the call returns.
RaceCommit(c) ==
    /\ r_pc[c] = "commit"
    /\ seen' = Rebase(work, now).table
    /\ now' = Rebase(work, now).now
    /\ work' = <<>>
    /\ lock' = 0
    /\ r_pc' = [r_pc EXCEPT ![c] = "done"]
    /\ UNCHANGED <<callVars, pipeVars, watchVars, r_ret>>

RaceNext ==
    \/ RaceSetup
    \/ RaceTick
    \/ \E c \in Callers : RaceInsert(c)
    \/ \E c \in Callers : RaceBusy(c)
    \/ \E c \in Callers : RaceCleanup(c)
    \/ \E c \in Callers : RaceCommit(c)

SpecRace == StoreInit /\ [][RaceNext]_vars

\* ---------------------------------------------------------------- claims on the store
\* Position k of the batch is the one process_new_entries admits for its
\* identifier: non-empty, not in the table before, and no later position of the
\* list (processed earlier) carries the same identifier.
FirstProcessed(entries, pre, k) ==
    /\ entries[k] # NoId
    /\ entries[k] \notin pre
    /\ \A j \in (k + 1)..Len(entries) : entries[j] # entries[k]

\* C2: two admission attempts in sequence for one identifier (two single-entry
\* process_new_entries calls, the identifier not evicted and the table not
\* cleared in between) yield admitted then not admitted: a single-entry call
\* for an identifier not in the table returns the entry, and the call that
\* follows it for the same identifier returns the empty list.
C2_IdempotentSequential ==
    lastOp = "pne" =>
      /\ (Len(lastBatch) = 1 /\ lastBatch[1] \in Ids \ lastPre)
            => lastRet = <<EntryAt(lastBatch, 1)>>
      /\ (prevCall.op = "admit1" /\ Len(lastBatch) = 1 /\ lastBatch[1] \in prevCall.ids)
            => lastRet = <<>>

C2_Witness ==
    /\ lastOp = "pne"
    /\ prevCall = [op |-> "admit1", ids |-> {1}]
    /\ lastBatch = <<1>>
    /\ lastRet = <<>>

\* C4: every committed table holds at most MAX_LOADS rows, and once more than
\* MAX_LOADS distinct identifiers were inserted (since the table was last
\* cleared) it holds exactly MAX_LOADS rows.
C4_BoundedSize ==
    /\ Len(seen) <= MAX_LOADS
    /\ Cardinality(inserted) > MAX_LOADS => Len(seen) = MAX_LOADS

C4_Witness ==
    /\ Cardinality(inserted) > MAX_LOADS
    /\ Len(seen) = MAX_LOADS
    /\ lastOp = "pne"

\* The identifiers a process_new_entries step had in hand at its cleanup, in
\* the order they were observed: the rows of the table before, then the
\* entries admitted.
ObservedOrder(table, ret) ==
    [k \in 1..(Len(table) + Len(ret)) |->
        IF k <= Len(table) THEN table[k].order_id ELSE ret[k - Len(table)].order_id]

\* C5: whenever the cleanup of process_new_entries removes rows, no row is
\* removed while a row observed earlier than it is kept.
C5_StrictRecency ==
    [][(lastOp' = "pne" /\ seen' # seen) =>
          LET obs == ObservedOrder(seen, lastRet')
          IN  \A a, b \in 1..Len(obs) :
                (a < b /\ obs[a] \in SeenIds(seen')) => obs[b] \in SeenIds(seen')]_vars

\* C6: process_new_entries returns exactly the entries with a non-empty
\* identifier that were admitted (the identifier was not in the table), in the
\* reverse of the input order; an entry without identifier is never returned
\* and never inserted.
C6_OrderPreservation ==
    /\ NoId \notin SeenIds(seen)
    /\ lastOp = "pne" =>
        /\ \A m \in 1..Len(lastRet) :
              /\ lastRet[m].idx \in 1..Len(lastBatch)
              /\ lastRet[m] = EntryAt(lastBatch, lastRet[m].idx)
              /\ lastRet[m].order_id # NoId
        /\ \A m, n \in 1..Len(lastRet) : m < n => lastRet[m].idx > lastRet[n].idx
        /\ RetIds(lastRet) = (SeqSet(lastBatch) \ {NoId}) \ lastPre
        /\ SeenIds(seen) \subseteq lastPre \cup RetIds(lastRet)

C6_Witness ==
    /\ lastOp = "pne"
    /\ lastBatch = <<2, 1>>
    /\ lastPre = {}
    /\ lastRet = <<[order_id |-> 1, idx |-> 2], [order_id |-> 2, idx |-> 1]>>

\* C7: of the entries of one batch that carry the same previously unseen
\* identifier exactly one is returned, the one processed first, which is the
\* last of them in the input list.
C7_DuplicateInBatch ==
    lastOp = "pne" =>
      \A k \in 1..Len(lastBatch) :
        (\E m \in 1..Len(lastRet) : lastRet[m].idx = k)
            <=> FirstProcessed(lastBatch, lastPre, k)

C7_Witness ==
    /\ lastOp = "pne"
    /\ lastBatch = <<1, 1>>
    /\ lastPre = {}
    /\ lastRet = <<[order_id |-> 1, idx |-> 2]>>

C1_AtMostOnce == ~cleared => \A i \in Ids : returned[i] <= 1

\* C1, amended: an identifier is returned at most once per call and at most
\* once while its row stays in the table; it is returned again only after
\* the row was evicted or cleared.
C1_AtMostOncePerRetention == \A i \in Ids : live[i] <= 1

\* C1: without any clear an identifier has been returned a second time, after
\* its row had been evicted, and is in the table again.
C1_Witness ==
    /\ ~cleared
    /\ \E i \in Ids : returned[i] = 2 /\ live[i] = 1 /\ i \in SeenIds(seen)

\* A step of process_entries that takes an entry off the queue.
DequeueStep == Len(entry_queue') < Len(entry_queue)

\* A step of scrape_entries that runs process_new_entries.
ScrapeStep == s_pc = "run" /\ s_pc' = "sleep"

SkippedCleanly ==
    cur.outcome = "SKIPPED" =>
        /\ ~cur.gate
        /\ ~cur.formatted
        /\ cur.sends = 0
        /\ cur.notified = 0

\* C9, as stated: an entry dequeued with posting disabled is skipped with no
\* formatting, no send attempt, no retry and no notification, and (as long as
\* nothing is cleared) its identifier is in the seen-set from then on.
C9_SkipStaysSeen ==
    /\ SkippedCleanly
    /\ (cur.outcome = "SKIPPED" /\ ~cleared) => cur.entry.order_id \in SeenIds(seen)

\* C9, amended: an entry dequeued with posting disabled is skipped with no
\* formatting, no send attempt, no retry, no cooldown and no notification;
\* the skip leaves the seen-set as it is; and an identifier that is in the
\* seen-set when a discovery cycle runs is not admitted by that cycle.
C9_SkipLeavesSeen ==
    /\ []SkippedCleanly
    /\ [][(DequeueStep /\ ~posting_enabled) =>
            /\ cur' = Handling(Head(entry_queue), FALSE, FALSE, 0, "SKIPPED")
            /\ d_pc' = "get"
            /\ seen' = seen
            /\ returned' = returned]_vars
    /\ [][ScrapeStep => \A i \in SeenIds(seen) : live'[i] <= live[i] /\ live[i] = 1]_vars

\* C9: posting is disabled, the queue has been drained, the last entry was
\* skipped, and its identifier, returned once, is still recorded.
C9_Witness ==
    /\ cur.outcome = "SKIPPED"
    /\ ~posting_enabled
    /\ cur.entry.order_id \in SeenIds(seen)
    /\ returned[cur.entry.order_id] = 1
    /\ s_pc = "sleep"
    /\ entry_queue = <<>>

\* ---------------------------------------------------------------- claims on the send retry
\* base * 2^i in units of 1 / JitterSteps seconds, base 2.
BackoffBase(i) == 2 * Pow2(i) * JitterSteps

\* C10: the wait after failed attempt i (0-indexed) is 2 * 2^i + jitter with
\* jitter in [0, 1); the waits of one entry are strictly increasing; no wait
\* follows the last attempt; at most max_retries (5) sends are made; and an
\* entry whose every send fails ends terminal after exactly max_retries sends
\* and max_retries - 1 waits.
C10_BackoffGrowth ==
    /\ cur.sends <= max_retries
    /\ \A k \in 1..Len(waits) :
         /\ waits[k] >= BackoffBase(k - 1)
         /\ waits[k] < BackoffBase(k - 1) + JitterSteps
    /\ \A k \in 1..(Len(waits) - 1) : waits[k] < waits[k + 1]
    /\ d_pc = "backoff" => Len(waits) = cur.sends /\ cur.sends < max_retries /\ delay = waits[Len(waits)]
    /\ d_pc = "sending" => Len(waits) = cur.sends
    /\ cur.outcome = "SENT" => Len(waits) = cur.sends - 1
    /\ (cur.outcome = "FAILED_TERMINAL" /\ cur.formatted) =>
            /\ cur.sends = max_retries
            /\ Len(waits) = max_retries - 1
            /\ d_pc \in {"cooldown", "get"}

\* C10: every send of an entry failed, with the largest jitter first and the
\* smallest next, and the entry ended terminal.
C10_Witness ==
    /\ cur.outcome = "FAILED_TERMINAL"
    /\ cur.formatted
    /\ cur.sends = max_retries
    /\ Len(waits) = max_retries - 1
    /\ waits[1] = BackoffBase(0) + JitterSteps - 1
    /\ waits[2] = BackoffBase(1)

\* ---------------------------------------------------------------- claims on racing callers
\* C3: when the racing callers have all returned, exactly one of them got
\* the raced identifier back as unseen.
C3_ExactlyOneAdmits ==
    (\A c \in Callers : r_pc[c] = "done") =>
        Cardinality({c \in Callers : r_ret[c] = "unseen"}) = 1

\* ---------------------------------------------------------------- claims on the notifier
\* C11: the first notify call after start-up sends an alert round, and no
\* round is sent without a call.
C11_FirstNotifySends ==
    /\ error_notifier.calls >= 1 => error_notifier.alerts >= 1
    /\ error_notifier.alerts <= error_notifier.calls

StorageErrorStep == s_pc = "run" /\ s_pc' \in {"backoff", "dead"}

\* C13: a pass whose process_new_entries raised leaves the seen-set and the
\* queue as they were and returns nothing, and no identifier of such a batch
\* that was not recorded before is recorded until a later pass returns it.
C13_StorageErrorNotSeen ==
    /\ [](failed \cap SeenIds(seen) = {})
    /\ [][StorageErrorStep =>
            /\ seen' = seen
            /\ entry_queue' = entry_queue
            /\ returned' = returned
            /\ failed \subseteq failed']_vars

\* C13: a call failed on a batch with an identifier not recorded, the handler
\* sleeps its 60 seconds, and the table holds another identifier.
C13_Witness ==
    /\ s_pc = "backoff"
    /\ failed # {}
    /\ seen # <<>>
    /\ ~notify_enabled

\* The entries the delivery side can see: those queued and the one dequeued last.
Visible == SeqSet(entry_queue) \cup (IF cur.entry = NoEntry THEN {} ELSE {cur.entry})

\* C14: every entry on the queue or in delivery was returned by a
\* process_new_entries call that had committed, also after the loops were
\* cancelled.
C14_AdmissionPrecedesVisibility ==
    \A e \in Visible : returned[e.order_id] >= 1

\* C14: the loops were cancelled with one entry in delivery and another queued.
C14_Witness ==
    /\ ~polling
    /\ s_pc = "cancelled"
    /\ d_pc = "cancelled"
    /\ cur.outcome = "PENDING"
    /\ entry_queue # <<>>

\* C15: the queue grows only at its end and, within one pass, from the oldest
\* entry (last in the source's list) to the newest; an entry is dequeued only
\* when the handling of the one before is over, and it is the head of the
\* queue; the entry in delivery changes at a dequeue only.
C15_FifoOrder ==
    /\ [][DequeueStep =>
            /\ d_pc = "get"
            /\ cur.outcome \in {"NONE", "SKIPPED", "SENT", "FAILED_TERMINAL"}
            /\ cur'.entry = Head(entry_queue)
            /\ entry_queue' = Tail(entry_queue)]_vars
    /\ [][Len(entry_queue') > Len(entry_queue) =>
            /\ SubSeq(entry_queue', 1, Len(entry_queue)) = entry_queue
            /\ \A k \in (Len(entry_queue) + 1)..(Len(entry_queue') - 1) :
                 entry_queue'[k].idx > entry_queue'[k + 1].idx]_vars
    /\ [][cur'.entry # cur.entry => DequeueStep]_vars

\* C15: two entries of one pass were queued, the older is being sent and the
\* newer waits.
C15_Witness ==
    /\ d_pc = "sending"
    /\ cur.entry.idx = 2
    /\ Len(entry_queue) = 1
    /\ entry_queue[1].idx = 1
    /\ entry_queue[1].order_id # cur.entry.order_id

\* C16: the entries put minus the entries got are the entries on the queue.
C16_QueueConserves == owed = Len(entry_queue)

\* C16: entries were put and one was got: one is in delivery, MaxQueue are queued.
C16_Witness ==
    /\ cur.entry # NoEntry
    /\ d_pc = "sending"
    /\ owed = MaxQueue
    /\ Len(entry_queue) = MaxQueue

\* C17: an entry whose formatting failed, with notifications enabled, had no
\* send attempt and exactly one notify call, and the delivery loop is alive.
C17_FormatErrorReported ==
    (cur.outcome = "FAILED_TERMINAL" /\ ~cur.formatted /\ notify_enabled) =>
        /\ cur.sends = 0
        /\ cur.notified = 1
        /\ d_pc # "dead"

\* C18: an entry whose max_retries sends all failed is terminal, the notifier
\* was not called for it, and the loop is in its cooldown or back at the queue.
C18_ExhaustionNotEscalated ==
    (cur.formatted /\ cur.outcome = "FAILED_TERMINAL") =>
        /\ cur.sends = max_retries
        /\ cur.notified = 0
        /\ d_pc \in {"cooldown", "get"}

\* C18: the sends of an entry were exhausted, the loop is back at the queue
\* and another entry waits.
C18_Witness ==
    /\ cur.formatted
    /\ cur.outcome = "FAILED_TERMINAL"
    /\ cur.sends = max_retries
    /\ d_pc = "get"
    /\ entry_queue # <<>>

\* C19: after a pass whose fetch failed the discovery loop sleeps its backoff
\* and, with notifications enabled, has called the notifier.
C19_FetchFailureBackoff ==
    (fetch_error /\ polling) =>
        /\ s_pc = "backoff"
        /\ notify_enabled => error_notifier.calls >= 1

\* C20: eventually every queued entry has been dequeued and the last one has
\* reached SKIPPED, SENT or FAILED_TERMINAL.
C20_EveryEntryHandled ==
    <>(/\ entry_queue = <<>>
       /\ cur.outcome \in {"SKIPPED", "SENT", "FAILED_TERMINAL"})

\* ---------------------------------------------------------------- claims on alerts and shutdown
\* C21: a notify call that passes the throttle check, as the first call does
\* with last_notification_time at datetime.min, awaits bot.send_message for
\* every recipient of ADMIN_IDS.
C21_EveryRecipientAttempted ==
    error_notifier.calls = 1 => error_notifier.attempted = Recipients

\* C22: once start() has left start_polling, by return, KeyboardInterrupt,
\* SystemExit or another exception, both tasks have ended, cancelled unless
\* they had ended before, and from then on neither loop sends, dequeues,
\* enqueues or writes the seen-set.
C22_ShutdownStopsLoops ==
    /\ []((~polling) => /\ stop_cause \in {"stopped", "fatal"}
                        /\ s_pc \in {"cancelled", "dead"}
                        /\ d_pc \in {"cancelled", "dead"})
    /\ [][(~polling) => /\ seen' = seen
                        /\ entry_queue' = entry_queue
                        /\ cur' = cur
                        /\ attempt' = attempt
                        /\ returned' = returned]_vars

\* C22: start_polling raised while process_entries slept a retry backoff
\* with one failed send behind it and scrape_entries slept; both are
\* cancelled.
C22_Witness ==
    /\ stop_cause = "fatal"
    /\ d_pc = "cancelled"
    /\ delay > 0
    /\ cur.sends = 1
    /\ cur.outcome = "PENDING"
    /\ s_pc = "cancelled"

AttemptStep == d_pc # "sending" /\ d_pc' = "sending"

\* C24: every send attempt, first or retry, starts with posting_enabled set.
C24_GateGovernsEverySend == [][AttemptStep => posting_enabled]_vars

\* C25: an entry that reaches SENT or FAILED_TERMINAL puts the loop into its
\* cooldown, unless the task ends with it; the loop comes back to the queue
\* from an entry it handled only out of the cooldown; after a skipped entry
\* it is back at the queue at once; a first send attempt follows a dequeue.
C25_CooldownPacing ==
    [][/\ (cur' # cur /\ cur'.outcome \in {"SENT", "FAILED_TERMINAL"})
            => d_pc' \in {"cooldown", "dead"}
       /\ (d_pc # "get" /\ d_pc' = "get") => d_pc = "cooldown"
       /\ (DequeueStep /\ cur'.outcome = "SKIPPED") => d_pc' = "get"
       /\ (AttemptStep /\ attempt' = 0) => (d_pc = "get" /\ DequeueStep)]_vars

\* C25: an entry was sent, the loop sleeps its cooldown and the next entry
\* waits on the queue.
C25_Witness ==
    /\ d_pc = "cooldown"
    /\ cur.outcome = "SENT"
    /\ entry_queue # <<>>

\* C26: a notify call that is not the first returns without error, having
\* sent or having been throttled, and a throttled call leaves the alert
\* rounds sent and last_notification_time as they were.
C26_ThrottledIsSilent ==
    error_notifier.calls >= 2 =>
        /\ error_notifier.outcome \in {"throttled", "sent"}
        /\ error_notifier.outcome = "throttled" => error_notifier.alerts = 1

\* ---------------------------------------------------------------- claims on records
\* The row of identifier i in table.
RowOf(table, i) == table[CHOOSE k \in 1..Len(table) : table[k].order_id = i]

\* The record of i is the one it was: its timestamp, in the past before the
\* step, is still in the past after it.
Kept(i) == RowOf(seen, i).timestamp < now => RowOf(seen', i).timestamp < now'

\* The identifiers recorded before and after a step that a call was made for.
Readmitted == (SeenIds(seen) \cap SeenIds(seen')) \cap SeqSet(lastBatch')

\* C27: an identifier has at most one record, and a call of
\* process_new_entries or mark_seen for an identifier that is recorded leaves
\* its record, timestamp included, as it was.
C27_OneRecordUnchanged ==
    /\ [](Cardinality(SeenIds(seen)) = Len(seen))
    /\ [][(CallProcessNewEntries \/ CallMarkSeen) =>
            \A i \in Readmitted : Kept(i)]_vars

\* C27: an identifier has at most one record; process_new_entries returns
\* and inserts only identifiers that were not recorded and leaves the record
\* of a recorded one, timestamp included, as it was; mark_seen for a recorded
\* identifier replaces its record by one stamped with the time of the call.
C27_OneRecordReplacedByMark ==
    /\ [](Cardinality(SeenIds(seen)) = Len(seen))
    /\ [][CallProcessNewEntries =>
            /\ \A i \in Readmitted : Kept(i)
            /\ RetIds(lastRet') \cap SeenIds(seen) = {}
            /\ Cardinality(RetIds(lastRet')) = Len(lastRet')]_vars
    /\ [][CallMarkSeen =>
            \A i \in Readmitted : RowOf(seen', i).timestamp = now']_vars

\* C27: process_new_entries admitted identifier 1 and mark_seen was then
\* called for it; it is recorded.
C27_Witness ==
    /\ lastOp = "mark"
    /\ lastBatch = <<1>>
    /\ prevCall = [op |-> "admit1", ids |-> {1}]
    /\ 1 \in SeenIds(seen)

\* C28: a process_new_entries call whose cleanup raised after its inserts
\* left the identifiers it inserted recorded and returned their entries.
C28_EvictionNeverFailsAdmission ==
    lastOp = "evict_error" =>
        LET fresh == (SeqSet(lastBatch) \ {NoId}) \ lastPre
        IN  /\ fresh \subseteq SeenIds(seen)
            /\ RetIds(lastRet) = fresh

\* C29: whenever scrape_entries is not at its fetch it is eventually there
\* again.
C29_DiscoverySurvives == (s_pc # "run") ~> (s_pc = "run")

\* C30: no notify call raises, and no task has ended with an exception from
\* a handler.
C30_NotifyReturns ==
    /\ error_notifier.outcome # "raised"
    /\ s_pc # "dead"
    /\ d_pc # "dead"

\* ---------------------------------------------------------------- claims on hand-over
\* The entries a step put on the queue.
Put ==
    IF Len(entry_queue') > Len(entry_queue)
    THEN SubSeq(entry_queue', Len(entry_queue) + 1, Len(entry_queue'))
    ELSE <<>>

\* C31: every recorded identifier was returned by process_new_entries, and
\* the step in which an identifier is recorded or returned also puts its
\* entry on the queue, once, and leaves scrape_entries in its poll sleep.
C31_NoLossAfterAdmission ==
    /\ [](\A i \in SeenIds(seen) : returned[i] >= 1)
    /\ [][/\ \A i \in SeenIds(seen') \ SeenIds(seen) : Occurrences(Put, i) = 1
          /\ \A i \in Ids : returned'[i] > returned[i] => Occurrences(Put, i) = 1
          /\ (returned' # returned) => (s_pc = "run" /\ s_pc' = "sleep")]_vars

\* C31: one pass admitted identifiers 1 and 2; both entries are queued, the
\* capacity has already evicted a record, and the loop sleeps.
C31_Witness ==
    /\ s_pc = "sleep"
    /\ RetIds(entry_queue) = {1, 2}
    /\ returned[1] = 1
    /\ returned[2] = 1
    /\ seen # <<>>
    /\ cur.entry = NoEntry

\* C32: no send attempt is made for an entry after one succeeded, task_done
\* is called at most once for a dequeued entry, and exactly once when the
\* loop is through with the entry without having been cancelled.
C32_DoneExactlyOnce ==
    /\ cur.outcome = "SENT" => (d_pc \notin {"sending", "backoff"} /\ cur.sends <= max_retries)
    /\ task_done <= 1
    /\ (cur.entry # NoEntry /\ d_pc \in {"get", "dead"}) => task_done = 1

=============================================================================
